---- MODULE Spec2Model ----
(***************************************************************************)
(* A model of src/pages/index.tsx: the ROI calculator's input store (the   *)
(* CalculatorState held by HomePage and its change handlers) and the pure  *)
(* function computeScenario.                                               *)
(*                                                                         *)
(* JavaScript numbers are modelled as IEEE-754 doubles, bit for bit: every *)
(* arithmetic operator rounds its result to the nearest double, ties to    *)
(* even, as the code's operators do.  A number is a record [k, s, m, e]:   *)
(* kind k ("fin", "inf" or "nan"), sign s (1 or -1), and for a finite      *)
(* number the magnitude m * 2^e, with m a natural number of at most 53     *)
(* bits held as a sequence of 14-bit limbs, least significant first (the   *)
(* empty sequence for a zero).                                             *)
(***************************************************************************)
EXTENDS Integers, Sequences, FiniteSets, TLC

VARIABLES state, results, lastFreshEdit, edits

vars == <<state, results, lastFreshEdit, edits>>

(***************************************************************************)
(* Natural numbers of any size, for the mantissas and the digit strings    *)
(***************************************************************************)
\* A const declaration: Let([name \in {value} |-> body]) is the body with the
\* name bound to the value, which is computed first, and once, however often
\* the body uses the name.
Let(f) == f[CHOOSE x \in DOMAIN f : TRUE]

Limb == 16384

LimbBits == 14

MantissaBits == 53

\* The limbs of a without its leading zero limbs.
BNorm(a) ==
    Let([nz \in {{i \in 1..Len(a) : a[i] # 0}} |->
        IF nz = {} THEN <<>>
        ELSE SubSeq(a, 1, CHOOSE i \in nz : \A j \in nz : j <= i)])

RECURSIVE BFromInt(_)
BFromInt(i) == IF i = 0 THEN <<>> ELSE <<i % Limb>> \o BFromInt(i \div Limb)

\* Limb i of a (0 beyond its length).
BAt(a, i) == IF i <= Len(a) THEN a[i] ELSE 0

\* The operators below work through the limbs lo..hi of their arguments by
\* halving the range, the carry going from the low half to the high half
\* (the remainder from the high half to the low half in a division).

\* Limbs lo..hi of a + b + c, and the carry out of limb hi.
RECURSIVE BAddR(_, _, _, _, _)
BAddR(a, b, c, lo, hi) ==
    IF lo > hi THEN [q |-> <<>>, c |-> c]
    ELSE IF lo = hi
    THEN LET t == BAt(a, lo) + BAt(b, lo) + c
         IN  [q |-> <<t % Limb>>, c |-> t \div Limb]
    ELSE LET mid == (lo + hi) \div 2
         IN  Let([L \in {BAddR(a, b, c, lo, mid)} |->
             Let([H \in {BAddR(a, b, L.c, mid + 1, hi)} |->
                 [q |-> L.q \o H.q, c |-> H.c]])])

BAdd(a, b) ==
    Let([r \in {BAddR(a, b, 0, 1, IF Len(a) > Len(b) THEN Len(a) ELSE Len(b))} |->
        IF r.c = 0 THEN r.q ELSE r.q \o <<r.c>>])

\* Limbs lo..hi of a - b - c, and the borrow out of limb hi.
RECURSIVE BSubR(_, _, _, _, _)
BSubR(a, b, c, lo, hi) ==
    IF lo > hi THEN [q |-> <<>>, c |-> c]
    ELSE IF lo = hi
    THEN LET t == BAt(a, lo) - BAt(b, lo) - c
         IN  IF t < 0 THEN [q |-> <<t + Limb>>, c |-> 1] ELSE [q |-> <<t>>, c |-> 0]
    ELSE LET mid == (lo + hi) \div 2
         IN  Let([L \in {BSubR(a, b, c, lo, mid)} |->
             Let([H \in {BSubR(a, b, L.c, mid + 1, hi)} |->
                 [q |-> L.q \o H.q, c |-> H.c]])])

\* a - b for a >= b.
BSub(a, b) == BNorm(BSubR(a, b, 0, 1, Len(a)).q)

\* -1, 0 or 1 as a < b, a = b or a > b.
BCmp(a, b) ==
    IF Len(a) # Len(b) THEN (IF Len(a) < Len(b) THEN -1 ELSE 1)
    ELSE Let([diff \in {{i \in 1..Len(a) : a[i] # b[i]}} |->
             IF diff = {} THEN 0
             ELSE Let([top \in {CHOOSE i \in diff : \A j \in diff : j <= i} |->
                      IF a[top] < b[top] THEN -1 ELSE 1])])

\* Limbs lo..hi of a * k + c for a small k, and the carry out of limb hi.
RECURSIVE BMulSmallR(_, _, _, _, _)
BMulSmallR(a, k, c, lo, hi) ==
    IF lo > hi THEN [q |-> <<>>, c |-> c]
    ELSE IF lo = hi
    THEN LET t == a[lo] * k + c
         IN  [q |-> <<t % Limb>>, c |-> t \div Limb]
    ELSE LET mid == (lo + hi) \div 2
         IN  Let([L \in {BMulSmallR(a, k, c, lo, mid)} |->
             Let([H \in {BMulSmallR(a, k, L.c, mid + 1, hi)} |->
                 [q |-> L.q \o H.q, c |-> H.c]])])

\* a * k + c for small k and c.
BMulSmallC(a, k, c) ==
    Let([r \in {BMulSmallR(a, k, c, 1, Len(a))} |-> BNorm(r.q \o BFromInt(r.c))])

BMulSmall(a, k) == BMulSmallC(a, k, 0)

\* a * 2^(LimbBits * n)
BShiftLimbs(a, n) == IF a = <<>> THEN <<>> ELSE [i \in 1..n |-> 0] \o a

\* a times the limbs lo..hi of b.
RECURSIVE BMulR(_, _, _, _)
BMulR(a, b, lo, hi) ==
    IF lo = hi THEN BMulSmall(a, b[lo])
    ELSE LET mid == (lo + hi) \div 2
         IN  BAdd(BMulR(a, b, lo, mid),
                  BShiftLimbs(BMulR(a, b, mid + 1, hi), mid + 1 - lo))

BMul(a, b) == IF a = <<>> \/ b = <<>> THEN <<>> ELSE BMulR(a, b, 1, Len(b))

\* a * 2^k
BShl(a, k) == BShiftLimbs(BMulSmall(a, 2^(k % LimbBits)), k \div LimbBits)

\* The quotient limbs lo..hi and the remainder of a by a small d, given the
\* remainder r brought down from the limbs above hi.
RECURSIVE BDivSmallR(_, _, _, _, _)
BDivSmallR(a, d, r, lo, hi) ==
    IF lo > hi THEN [q |-> <<>>, r |-> r]
    ELSE IF lo = hi
    THEN LET t == r * Limb + a[lo]
         IN  [q |-> <<t \div d>>, r |-> t % d]
    ELSE LET mid == (lo + hi) \div 2
         IN  Let([H \in {BDivSmallR(a, d, r, mid + 1, hi)} |->
             Let([L \in {BDivSmallR(a, d, H.r, lo, mid)} |->
                 \* the test has the high half evaluated first (a remainder is < d)
                 IF H.r < d THEN [q |-> L.q \o H.q, r |-> L.r] ELSE H])])

BDivSmall(a, d) ==
    Let([qr \in {BDivSmallR(a, d, 0, 1, Len(a))} |-> [q |-> BNorm(qr.q), r |-> qr.r]])

\* floor(a / 2^k)
BShr(a, k) ==
    IF k \div LimbBits >= Len(a) THEN <<>>
    ELSE BDivSmall(SubSeq(a, k \div LimbBits + 1, Len(a)), 2^(k % LimbBits)).q

RECURSIVE IntBits(_)
IntBits(i) == IF i = 0 THEN 0 ELSE 1 + IntBits(i \div 2)

\* The number of bits of a.
BBits(a) == IF a = <<>> THEN 0 ELSE LimbBits * (Len(a) - 1) + IntBits(a[Len(a)])

BOdd(a) == a # <<>> /\ a[1] % 2 = 1

\* The largest q with d * q <= t, given an estimate qh with q <= qh <= q + 2.
BQuotientLimb(t, d, qh) ==
    IF BCmp(BMulSmall(d, qh), t) <= 0 THEN qh
    ELSE IF BCmp(BMulSmall(d, qh - 1), t) <= 0 THEN qh - 1
    ELSE qh - 2

\* Long division of a by d, limb by limb, for d with its top limb >= Limb / 2:
\* the quotient limbs lo..hi and the remainder, given the remainder r from
\* the limbs above hi.  A quotient limb is estimated from the two top limbs
\* of the running dividend and the top limb of d, which overshoots by at
\* most 2.
RECURSIVE BDivR(_, _, _, _, _)
BDivR(a, d, r, lo, hi) ==
    IF lo = hi
    THEN Let([t \in {BNorm(<<a[lo]>> \o r)} |->
             LET n == Len(d)
                 e == (BAt(t, n + 1) * Limb + BAt(t, n)) \div d[n]
             IN  Let([q \in {BQuotientLimb(t, d, IF e > Limb - 1 THEN Limb - 1 ELSE e)} |->
                     [q |-> <<q>>, r |-> BSub(t, BMulSmall(d, q))]])])
    ELSE LET mid == (lo + hi) \div 2
         IN  Let([H \in {BDivR(a, d, r, mid + 1, hi)} |->
             Let([L \in {BDivR(a, d, H.r, lo, mid)} |->
                 \* the test has the high half evaluated first (a remainder is < d)
                 IF BCmp(H.r, d) < 0 THEN [q |-> L.q \o H.q, r |-> L.r] ELSE H])])

\* The quotient and the remainder of a by d > 0: both are scaled by 2^k to
\* bring the top limb of d to Limb / 2 or more, which leaves the quotient
\* as it is.
BDiv(a, d) ==
    LET k == LimbBits - IntBits(d[Len(d)])
    IN  IF a = <<>> THEN [q |-> <<>>, r |-> <<>>]
        ELSE Let([ak \in {BShl(a, k)} |->
             Let([qr \in {BDivR(ak, BShl(d, k), <<>>, 1, Len(ak))} |->
                 [q |-> BNorm(qr.q), r |-> BShr(qr.r, k)]])])

(***************************************************************************)
(* JavaScript number arithmetic                                            *)
(***************************************************************************)
NaN == [k |-> "nan", s |-> 1, m |-> <<>>, e |-> 0]

Inf(s) == [k |-> "inf", s |-> s, m |-> <<>>, e |-> 0]

SignedZero(s) == [k |-> "fin", s |-> s, m |-> <<>>, e |-> 0]

\* The exponent of the smallest subnormal, the largest exponent of a 53-bit
\* mantissa, and the finite double m * 2^e or the infinity it overflows to.
MinExponent == -1074

MaxExponent == 971

Fin(s, m, e) ==
    IF m = <<>> THEN SignedZero(s)
    ELSE IF e > MaxExponent THEN Inf(s)
    ELSE [k |-> "fin", s |-> s, m |-> m, e |-> e]

\* The double nearest to s * (a + f) * 2^e, ties to even, where 0 <= f < 1
\* and sticky tells whether f > 0 (then a has more than 54 bits).  sh is the
\* number of low bits of a that the result cannot hold.
RoundDouble(s, a, e, sticky) ==
    Let([sh \in {IF BBits(a) - MantissaBits > MinExponent - e THEN BBits(a) - MantissaBits
        ELSE MinExponent - e} |->
        IF a = <<>> THEN SignedZero(s)
        ELSE IF sh <= 0 THEN Fin(s, BShl(a, -sh), e + sh)
        ELSE Let([q \in {BShr(a, sh)} |->
             Let([c \in {BCmp(BSub(a, BShl(q, sh)), BShl(<<1>>, sh - 1))} |->
             Let([q2 \in {IF c = 1 \/ (c = 0 /\ (sticky \/ BOdd(q))) THEN BAdd(q, <<1>>) ELSE q} |->
                 IF BBits(q2) > MantissaBits THEN Fin(s, BShr(q2, 1), e + sh + 1)
                 ELSE Fin(s, q2, e + sh)])])])])

\* The number denoted by an integer literal.
Num(i) == RoundDouble(IF i < 0 THEN -1 ELSE 1, BFromInt(IF i < 0 THEN -i ELSE i), 0, FALSE)

\* The number denoted by a decimal literal: the double nearest to i / scale
\* (i >= 0, 0 < scale < 2^17).
Dec(i, scale) ==
    Let([qr \in {BDivSmall(BShl(BFromInt(i), 80), scale)} |->
        RoundDouble(1, qr.q, -80, qr.r # 0)])

IsNaN(x) == x.k = "nan"

\* Number.isFinite
isFinite(x) == x.k = "fin"

IsZero(x) == x.k = "fin" /\ x.m = <<>>

\* a * b
Mul(a, b) ==
    IF a.k = "nan" \/ b.k = "nan" THEN NaN
    ELSE IF a.k = "inf" \/ b.k = "inf"
         THEN IF IsZero(a) \/ IsZero(b) THEN NaN ELSE Inf(a.s * b.s)
    ELSE RoundDouble(a.s * b.s, BMul(a.m, b.m), a.e + b.e, FALSE)

\* a / b
Div(a, b) ==
    IF a.k = "nan" \/ b.k = "nan" THEN NaN
    ELSE IF a.k = "inf" THEN (IF b.k = "inf" THEN NaN ELSE Inf(a.s * b.s))
    ELSE IF b.k = "inf" THEN SignedZero(a.s * b.s)
    ELSE IF IsZero(b) THEN (IF IsZero(a) THEN NaN ELSE Inf(a.s * b.s))
    ELSE IF IsZero(a) THEN SignedZero(a.s * b.s)
    ELSE LET sc == 56 + BBits(b.m) - BBits(a.m)
         IN  Let([qr \in {BDiv(BShl(a.m, sc), b.m)} |->
                 RoundDouble(a.s * b.s, qr.q, a.e - b.e - sc, qr.r # <<>>)])

\* a + b
Add(a, b) ==
    IF a.k = "nan" \/ b.k = "nan" THEN NaN
    ELSE IF a.k = "inf" THEN (IF b.k = "inf" /\ b.s # a.s THEN NaN ELSE a)
    ELSE IF b.k = "inf" THEN b
    ELSE IF IsZero(a) /\ IsZero(b)
         THEN SignedZero(IF a.s = -1 /\ b.s = -1 THEN -1 ELSE 1)
    ELSE IF IsZero(a) THEN b
    ELSE IF IsZero(b) THEN a
    ELSE LET e == IF a.e < b.e THEN a.e ELSE b.e
         IN  Let([am \in {BShl(a.m, a.e - e)} |->
             Let([bm \in {BShl(b.m, b.e - e)} |->
             Let([c \in {BCmp(am, bm)} |->
                 IF a.s = b.s THEN RoundDouble(a.s, BAdd(am, bm), e, FALSE)
                 ELSE IF c = 0 THEN SignedZero(1)
                 ELSE IF c = 1 THEN RoundDouble(a.s, BSub(am, bm), e, FALSE)
                 ELSE RoundDouble(b.s, BSub(bm, am), e, FALSE)])])])

\* Unary minus.
Neg(x) == IF x.k = "nan" THEN x ELSE [x EXCEPT !.s = -x.s]

\* a - b
Sub(a, b) == Add(a, Neg(b))

\* a > b for two finite doubles of magnitude > 0 and the same sign s.
GtMagnitude(a, b) ==
    IF a.e # b.e THEN a.e > b.e ELSE BCmp(a.m, b.m) = 1

\* a > b (false when either is NaN; the two zeros are equal)
Gt(a, b) ==
    /\ a.k # "nan"
    /\ b.k # "nan"
    /\ IF a.k = "inf" THEN a.s = 1 /\ ~(b.k = "inf" /\ b.s = 1)
       ELSE IF b.k = "inf" THEN b.s = -1
       ELSE IF IsZero(a) THEN ~IsZero(b) /\ b.s = -1
       ELSE IF IsZero(b) THEN a.s = 1
       ELSE IF a.s # b.s THEN a.s = 1
       ELSE IF a.s = 1 THEN GtMagnitude(a, b)
       ELSE GtMagnitude(b, a)

\* a === b
StrictEq(a, b) == a.k # "nan" /\ b.k # "nan" /\ ~Gt(a, b) /\ ~Gt(b, a)

\* Math.round: the integer nearest to x, a tie going towards
\* +Infinity; the sign of x is kept when the result is zero.
MathRound(x) ==
    IF x.k # "fin" \/ x.m = <<>> \/ x.e >= 0 THEN x
    ELSE Let([i \in {BShr(x.m, -x.e)} |->
         Let([c \in {BCmp(BSub(x.m, BShl(i, -x.e)), BShl(<<1>>, -x.e - 1))} |->
             LET up == IF x.s = 1 THEN c >= 0 ELSE c = 1
             IN  RoundDouble(x.s, IF up THEN BAdd(i, <<1>>) ELSE i, 0, FALSE)])])

(***************************************************************************)
(* Number(raw): the numeric value of a raw input string (StringToNumber).  *)
(* A raw string is a sequence of one-character strings.  The grammar:      *)
(* optional white space around either nothing (0), a radix literal         *)
(* (0x, 0o or 0b and digits, unsigned), or an optional sign and "Infinity" *)
(* or a decimal literal (digits with an optional point and an optional     *)
(* exponent part).  Anything else is NaN.  The value is the double nearest *)
(* to the number the literal denotes.                                      *)
(***************************************************************************)
DigitChars == {"0", "1", "2", "3", "4", "5", "6", "7", "8", "9"}

HexDigitChars == DigitChars \cup {"a", "b", "c", "d", "e", "f", "A", "B", "C", "D", "E", "F"}

\* The characters Number() strips from both ends of a string (StrWhiteSpaceChar:
\* WhiteSpace and LineTerminator).  In the first line TAB, VT (U+000B), FF,
\* SP, NBSP (U+00A0) and ZWNBSP (U+FEFF), in the second LF, CR and the OGHAM
\* SPACE MARK (U+1680), each the character itself.  A character that a string
\* of this notation cannot hold stands as the name of its code point: the
\* space separators U+2000 to U+200A, U+202F, U+205F and U+3000, and the line
\* terminators U+2028 and U+2029.
WhiteSpaceChars ==
    { "\t", "", "\f", " ", " ", "﻿",
      "\n", "\r", " ",
      "U+2000", "U+2001", "U+2002", "U+2003", "U+2004", "U+2005", "U+2006",
      "U+2007", "U+2008", "U+2009", "U+200A", "U+202F", "U+205F", "U+3000",
      "U+2028", "U+2029" }

DigitVal(c) ==
    CASE c = "0" -> 0 [] c = "1" -> 1 [] c = "2" -> 2 [] c = "3" -> 3
      [] c = "4" -> 4 [] c = "5" -> 5 [] c = "6" -> 6 [] c = "7" -> 7
      [] c = "8" -> 8 [] c = "9" -> 9
      [] c \in {"a", "A"} -> 10 [] c \in {"b", "B"} -> 11 [] c \in {"c", "C"} -> 12
      [] c \in {"d", "D"} -> 13 [] c \in {"e", "E"} -> 14 [] c \in {"f", "F"} -> 15

\* q without its leading (trailing) white space.
TrimLeft(q) ==
    Let([ink \in {{i \in 1..Len(q) : q[i] \notin WhiteSpaceChars}} |->
        IF ink = {} THEN <<>>
        ELSE SubSeq(q, CHOOSE i \in ink : \A j \in ink : i <= j, Len(q))])

TrimRight(q) ==
    Let([ink \in {{i \in 1..Len(q) : q[i] \notin WhiteSpaceChars}} |->
        IF ink = {} THEN <<>>
        ELSE SubSeq(q, 1, CHOOSE i \in ink : \A j \in ink : j <= i)])

\* Decimal digits without their leading zeros.
StripZeros(q) ==
    Let([nz \in {{i \in 1..Len(q) : q[i] # "0"}} |->
        IF nz = {} THEN <<>>
        ELSE SubSeq(q, CHOOSE i \in nz : \A j \in nz : i <= j, Len(q))])

\* The value of at most nine decimal digits.
RECURSIVE DigitsValue(_)
DigitsValue(q) ==
    IF q = <<>> THEN 0
    ELSE DigitsValue(SubSeq(q, 1, Len(q) - 1)) * 10 + DigitVal(q[Len(q)])

AllDigits(q) == \A i \in 1..Len(q) : q[i] \in DigitChars

InfinityChars == <<"I", "n", "f", "i", "n", "i", "t", "y">>

\* 10^e
RECURSIVE BPow10(_)
BPow10(e) ==
    IF e = 0 THEN <<1>>
    ELSE IF e % 2 = 1 THEN BMulSmall(BPow10(e - 1), 10)
    ELSE Let([h \in {BPow10(e \div 2)} |-> BMul(h, h)])

\* The value of decimal digits, of any number.
RECURSIVE BDigitsValue(_)
BDigitsValue(q) ==
    IF Len(q) <= 4 THEN BFromInt(DigitsValue(q))
    ELSE Let([lo \in {SubSeq(q, Len(q) \div 2 + 1, Len(q))} |->
             BAdd(BMul(BDigitsValue(SubSeq(q, 1, Len(q) \div 2)), BPow10(Len(lo))),
                  BDigitsValue(lo))])

\* The value of digits of a radix 2^bits, of any number.
RECURSIVE BRadixValue(_, _)
BRadixValue(q, bits) ==
    IF Len(q) <= 1 THEN BFromInt(IF q = <<>> THEN 0 ELSE DigitVal(q[1]))
    ELSE Let([lo \in {SubSeq(q, Len(q) \div 2 + 1, Len(q))} |->
             BAdd(BShl(BRadixValue(SubSeq(q, 1, Len(q) \div 2), bits), bits * Len(lo)),
                  BRadixValue(lo, bits))])

\* The bits per digit of the radix prefix q starts with (0 when it starts
\* with none).
RadixBits(q) ==
    IF Len(q) < 2 \/ q[1] # "0" THEN 0
    ELSE IF q[2] \in {"x", "X"} THEN 4
    ELSE IF q[2] \in {"o", "O"} THEN 3
    ELSE IF q[2] \in {"b", "B"} THEN 1
    ELSE 0

\* A literal with a radix prefix: at least one digit of the radix after it.
RadixLiteral(q) ==
    Let([bits \in {RadixBits(q)} |->
    Let([digits \in {SubSeq(q, 3, Len(q))} |->
        IF digits # <<>>
           /\ \A i \in 1..Len(digits) :
                 digits[i] \in HexDigitChars /\ DigitVal(digits[i]) < 2^bits
        THEN RoundDouble(1, BRadixValue(digits, bits), 0, FALSE)
        ELSE NaN])])

\* The exponent part q of a decimal literal (after the "e") is well formed:
\* an optional sign and at least one digit.
IsExponentPart(q) ==
    /\ q # <<>>
    /\ Let([digits \in {IF q[1] \in {"+", "-"} THEN Tail(q) ELSE q} |->
           digits # <<>> /\ AllDigits(digits)])

\* The value of a well-formed exponent part, of any number of digits: its
\* sign s and its magnitude m.
ExponentValue(q) ==
    [s |-> IF q[1] = "-" THEN -1 ELSE 1,
     m |-> BDigitsValue(StripZeros(IF q[1] \in {"+", "-"} THEN Tail(q) ELSE q))]

\* The exponent of a literal without an exponent part.
NoExponent == [s |-> 1, m |-> <<>>]

\* The integer a natural number below 2^31 is.
RECURSIVE BToInt(_)
BToInt(a) == IF a = <<>> THEN 0 ELSE a[1] + Limb * BToInt(Tail(a))

\* The double nearest to digits * 10^exp10, for digits without leading
\* zeros and a decimal magnitude Len(digits) + exp10 within -326..310.
DecimalValue(digits, exp10) ==
    IF exp10 >= 0
    THEN RoundDouble(1, BMul(BDigitsValue(digits), BPow10(exp10)), 0, FALSE)
    ELSE Let([n \in {BDigitsValue(digits)} |->
         Let([den \in {BPow10(-exp10)} |->
             LET sc == IF 60 + BBits(den) - BBits(n) > 0
                       THEN 60 + BBits(den) - BBits(n) ELSE 0
             IN  Let([qr \in {BDiv(BShl(n, sc), den)} |->
                     RoundDouble(1, qr.q, -sc, qr.r # <<>>)])])])

\* The double nearest to digits * 10^(ex - scale), for digits without leading
\* zeros, scale digits of them after the point, and the exponent ex.  The
\* decimal magnitude Len(digits) + ex - scale decides when the number is
\* beyond the largest double (above 310) or below half the smallest one
\* (below -326); up and down are the terms added to and taken from it.
DecimalLiteral(digits, scale, ex) ==
    Let([up \in {IF ex.s = 1 THEN BAdd(ex.m, BFromInt(Len(digits)))
                 ELSE BFromInt(Len(digits))} |->
    Let([down \in {IF ex.s = 1 THEN BFromInt(scale)
                   ELSE BAdd(ex.m, BFromInt(scale))} |->
        IF digits = <<>> THEN SignedZero(1)
        ELSE IF BCmp(up, BAdd(down, BFromInt(310))) = 1 THEN Inf(1)
        ELSE IF BCmp(BAdd(up, BFromInt(326)), down) = -1 THEN SignedZero(1)
        ELSE DecimalValue(digits, ex.s * BToInt(ex.m) - scale)])])

\* An unsigned decimal literal: "Infinity", or digits with at most one point
\* and at least one digit, and an optional exponent part.
UnsignedLiteral(q) ==
    IF q = InfinityChars THEN Inf(1)
    ELSE
    Let([es \in {{i \in 1..Len(q) : q[i] \in {"e", "E"}}} |->
    Let([ep \in {IF es = {} THEN Len(q) + 1 ELSE CHOOSE i \in es : \A j \in es : i <= j} |->
    Let([mant \in {SubSeq(q, 1, ep - 1)} |->
    Let([expo \in {SubSeq(q, ep + 1, Len(q))} |->
    Let([dots \in {{i \in 1..Len(mant) : mant[i] = "."}} |->
    Let([p \in {IF dots = {} THEN Len(mant) + 1 ELSE CHOOSE i \in dots : TRUE} |->
    Let([ip \in {SubSeq(mant, 1, p - 1)} |->
    Let([fp \in {SubSeq(mant, p + 1, Len(mant))} |->
        IF Cardinality(dots) <= 1 /\ AllDigits(ip) /\ AllDigits(fp)
           /\ Len(ip) + Len(fp) >= 1
           /\ (es # {} => IsExponentPart(expo))
        THEN DecimalLiteral(StripZeros(ip \o fp), Len(fp),
                            IF es = {} THEN NoExponent ELSE ExponentValue(expo))
        ELSE NaN])])])])])])])])

\* Number(raw)
ToNumber(raw) ==
    Let([t \in {TrimRight(TrimLeft(raw))} |->
        IF t = <<>> THEN Num(0)
        ELSE IF RadixBits(t) > 0 THEN RadixLiteral(t)
        ELSE IF Head(t) = "-" THEN Neg(UnsignedLiteral(Tail(t)))
        ELSE IF Head(t) = "+" THEN UnsignedLiteral(Tail(t))
        ELSE UnsignedLiteral(t)])

\* const value = raw === "" ? 0 : Number(raw);  Number.isFinite(value) ? value : 0
InputValue(raw) ==
    Let([value \in {IF raw = <<>> THEN Num(0) ELSE ToNumber(raw)} |->
        IF isFinite(value) THEN value ELSE Num(0)])

(***************************************************************************)
(* The calculator state and its defaults                                   *)
(***************************************************************************)
EfficacyScenario == {"conservative", "base", "optimistic"}

HealthEvent(name, key, count, cost) ==
    [name |-> name, key |-> key, count |-> Num(count), costPerEvent |-> Num(cost)]

defaultHealthEvents ==
    << HealthEvent("Metritis", "metritis", 900, 400),
       HealthEvent("Mastitis", "mastitis", 2500, 400),
       HealthEvent("Clinical Hypocalcemia / Milk Fever", "milkFever", 150, 275),
       HealthEvent("Ketosis", "ketosis", 600, 200),
       HealthEvent("Retained Placenta", "retainedPlacenta", 400, 330),
       HealthEvent("Displaced Abomasum", "da", 150, 640),
       HealthEvent("Respiratory Disorders", "respiratory", 300, 400),
       HealthEvent("Digestive Disorders", "digestive", 400, 250),
       HealthEvent("Lameness", "lameness", 900, 225) >>

defaultState ==
    [ milkingCows     |-> Num(10000),
      freshPerYear    |-> Num(13500),
      freshOverride   |-> FALSE,
      replacementCost |-> Num(3500),
      salvageValue    |-> Num(2000),
      milkPrice       |-> Num(20),
      lbMilkPerLbDM   |-> Dec(18, 10),
      dmCost          |-> Dec(13, 100),
      deathEvents     |-> Num(700),
      soldEvents      |-> Num(3000),
      healthEvents    |-> defaultHealthEvents ]

(***************************************************************************)
(* computeScenario                                                         *)
(***************************************************************************)
DEATH_REDUCTION_BASE == Dec(113, 1000)

CULLING_VOLUNTARY_REDUCTION_BASE == Dec(666, 10000)

CULLING_SOLD_REDUCTION_BASE == Dec(113, 1000)

HEALTH_EVENT_REDUCTION_BASE == Dec(549, 1000)

PRODUCTION_GAIN_PERCENT_BASE == Dec(494, 100)

\* SCENARIO_MULTIPLIERS with the conservative entry set to the base multiplier.
SCENARIO_MULTIPLIERS_conservativeIsBase(scenario) ==
    CASE scenario = "conservative" -> Num(1)
      [] scenario = "base"         -> Num(1)
      [] scenario = "optimistic"   -> Dec(125, 100)

\* SCENARIO_MULTIPLIERS with the conservative and optimistic entries exchanged.
SCENARIO_MULTIPLIERS_exchanged(scenario) ==
    CASE scenario = "conservative" -> Dec(125, 100)
      [] scenario = "base"         -> Num(1)
      [] scenario = "optimistic"   -> Dec(75, 100)

SCENARIO_MULTIPLIERS(scenario) ==
    CASE scenario = "conservative" -> Dec(75, 100)
      [] scenario = "base"         -> Num(1)
      [] scenario = "optimistic"   -> Dec(125, 100)

SCENARIO_LABELS(scenario) ==
    CASE scenario = "conservative" -> "Conservative"
      [] scenario = "base"         -> "Base"
      [] scenario = "optimistic"   -> "Optimistic"

\* The value of a nullable number that is null.
Null == [k |-> "null", s |-> 1, m |-> <<>>, e |-> 0]

\* const fresh = state.freshOverride ? state.freshPerYear
\*                                   : Math.round(state.milkingCows * 1.35)
fresh(st) ==
    IF st.freshOverride THEN st.freshPerYear
    ELSE MathRound(Mul(st.milkingCows, Dec(135, 100)))

\* --- Death events ---
\* deathSavings from the avoided incidence per cow instead of the avoided events.
deathSavings_perCowIncidence(st, mult) ==
    Let([deathIncidence \in {Div(st.deathEvents, st.milkingCows)} |->
    Let([deathReduction \in {Mul(DEATH_REDUCTION_BASE, mult)} |->
    Let([newDeathIncidence \in {Mul(deathIncidence, Sub(Num(1), deathReduction))} |->
        Mul(Sub(deathIncidence, newDeathIncidence), st.salvageValue)])])])

deathSavings(st, mult) ==
    Let([m \in {st.milkingCows} |->
    Let([deathIncidence \in {Div(st.deathEvents, m)} |->
    Let([deathReduction \in {Mul(DEATH_REDUCTION_BASE, mult)} |->
    Let([newDeathIncidence \in {Mul(deathIncidence, Sub(Num(1), deathReduction))} |->
    Let([newDeathEvents \in {IF StrictEq(deathIncidence, Num(0)) THEN st.deathEvents
        ELSE Div(Mul(st.deathEvents, newDeathIncidence), deathIncidence)} |->
    Let([deathEventsAvoided \in {Sub(st.deathEvents, newDeathEvents)} |->
        Mul(deathEventsAvoided, st.salvageValue)])])])])])])

\* --- Culling section ---
cullingSavings(st, mult) ==
    Let([soldRate \in {Div(st.soldEvents, fresh(st))} |->
    Let([soldReduction \in {Mul(CULLING_SOLD_REDUCTION_BASE, mult)} |->
    Let([newSoldRate \in {Mul(soldRate, Sub(Num(1), soldReduction))} |->
    Let([cullingVoluntaryDeltaRate \in {Sub(soldRate, newSoldRate)} |->
        Mul(Mul(cullingVoluntaryDeltaRate, st.soldEvents),
            Sub(st.replacementCost, st.salvageValue))])])])])

\* The culling rate after the voluntary reduction (B27): computed by the code
\* and used by nothing.
newCullingRate(st, mult) ==
    Let([cullingRate \in {Div(Add(st.deathEvents, st.soldEvents), fresh(st))} |->
    Let([voluntaryReduction \in {Mul(CULLING_VOLUNTARY_REDUCTION_BASE, mult)} |->
        Mul(cullingRate, Sub(Num(1), voluntaryReduction))])])

\* The reduce with a callback that returns the event's savings without the
\* accumulator.
healthReduce_dropsAccumulator(evs, i, mult) ==
    IF i = 0 THEN Num(0)
    ELSE Mul(Mul(evs[i].count, Mul(HEALTH_EVENT_REDUCTION_BASE, mult)),
             evs[i].costPerEvent)

\* --- Health events section ---  healthEvents.reduce((acc, ev) => ..., 0),
\* over the first i events.
RECURSIVE healthReduce(_, _, _)
healthReduce(evs, i, mult) ==
    IF i = 0 THEN Num(0)
    ELSE Let([acc \in {healthReduce(evs, i - 1, mult)} |->
         Let([ev \in {evs[i]} |->
         Let([reduction \in {Mul(HEALTH_EVENT_REDUCTION_BASE, mult)} |->
         Let([eventsAvoided \in {Mul(ev.count, reduction)} |->
         Let([savings \in {Mul(eventsAvoided, ev.costPerEvent)} |->
             Add(acc, savings)])])])])])

healthSavings(st, mult) == healthReduce(st.healthEvents, Len(st.healthEvents), mult)

\* --- Production / IOFC ---
productionSavingsAnnual(st, mult) ==
    Let([gainPercent \in {Mul(PRODUCTION_GAIN_PERCENT_BASE, mult)} |->
    Let([extraRevenuePerCowDay \in {Div(Mul(gainPercent, st.milkPrice), Num(100))} |->
    Let([extraDMLbPerCowDay \in {Div(gainPercent, st.lbMilkPerLbDM)} |->
    Let([extraDMCostPerCowDay \in {Mul(extraDMLbPerCowDay, st.dmCost)} |->
    Let([netIOFCPerCowDay \in {Sub(extraRevenuePerCowDay, extraDMCostPerCowDay)} |->
        Mul(Mul(netIOFCPerCowDay, st.milkingCows), Num(210))])])])])])

\* --- Labor ---
laborCostAnnual ==
    Let([wagePerHour \in {Num(20)} |->
    Let([monthlyHours \in {Mul(Num(22), Num(30))} |->
    Let([laborChangeFraction \in {Dec(1, 10)} |->
    Let([changedHoursPerMonth \in {Mul(monthlyHours, laborChangeFraction)} |->
    Let([laborCostPerMonth \in {Mul(changedHoursPerMonth, wagePerHour)} |->
        Mul(laborCostPerMonth, Num(12))])])])])])

\* investmentAnnual with one dose per fresh cow instead of per milking cow.
investmentAnnual_perFreshCow(st) ==
    Add(Add(Mul(Mul(fresh(st), Dec(45, 10)), Num(1)), Mul(Num(40), Num(3))),
        laborCostAnnual)

\* investmentAnnual with the applicators left out.
investmentAnnual_noApplicators(st) ==
    Add(Mul(Mul(st.milkingCows, Dec(45, 10)), Num(1)), laborCostAnnual)

\* --- Investment ---
investmentAnnual(st) ==
    Let([costPerDose \in {Dec(45, 10)} |->
    Let([applicatorCost \in {Num(40)} |->
    Let([applicatorCount \in {Num(3)} |->
    Let([applicationsPerYear \in {Num(1)} |->
    Let([productCostAnnual \in {Mul(Mul(st.milkingCows, costPerDose), applicationsPerYear)} |->
    Let([applicatorInvestment \in {Mul(applicatorCost, applicatorCount)} |->
        Add(Add(productCostAnnual, applicatorInvestment), laborCostAnnual)])])])])])])

\* --- Total savings (annual) ---
totalSavingsAnnual(st, mult) ==
    Add(Add(Add(deathSavings(st, mult), cullingSavings(st, mult)),
            healthSavings(st, mult)),
        productionSavingsAnnual(st, mult))

\* netProfitAnnual with the investment added instead of subtracted.
netProfitAnnual_added(savings, investment) == Add(savings, investment)

netProfitAnnual(savings, investment) == Sub(savings, investment)

\* roiRatio without the guard on the investment.
roiRatio_unguarded(savings, investment) == Div(savings, investment)

roiRatio(savings, investment) ==
    IF Gt(investment, Num(0)) THEN Div(savings, investment) ELSE Num(0)

returnPerCowYear(netProfit, m) == Div(netProfit, m)

\* The breakeven guard testing the savings alone.
hasBreakeven_savingsOnly(savings, investment) == Gt(savings, Num(0))

\* The guard of the breakeven block.
hasBreakeven(savings, investment) == Gt(savings, Num(0)) /\ Gt(investment, Num(0))

monthsToBreakeven(savings, investment) ==
    IF hasBreakeven(savings, investment)
    THEN Mul(Div(investment, savings), Num(12)) ELSE Null

daysToBreakeven(savings, investment) ==
    IF hasBreakeven(savings, investment)
    THEN Mul(Div(investment, savings), Num(365)) ELSE Null

computeScenario(st, scenario) ==
    Let([mult \in {SCENARIO_MULTIPLIERS(scenario)} |->
    Let([investment \in {investmentAnnual(st)} |->
    Let([savings \in {totalSavingsAnnual(st, mult)} |->
    Let([netProfit \in {netProfitAnnual(savings, investment)} |->
    Let([perYear \in {returnPerCowYear(netProfit, st.milkingCows)} |->
    Let([perMonth \in {Div(perYear, Num(12))} |->
    Let([perDay \in {Div(perMonth, Num(30))} |->
        [ scenario          |-> scenario,
          label             |-> SCENARIO_LABELS(scenario),
          savingsAnnual     |-> savings,
          investmentAnnual  |-> investment,
          netProfitAnnual   |-> netProfit,
          roiRatio          |-> roiRatio(savings, investment),
          returnPerCowYear  |-> perYear,
          returnPerCowMonth |-> perMonth,
          returnPerCowDay   |-> perDay,
          monthsToBreakeven |-> monthsToBreakeven(savings, investment),
          daysToBreakeven   |-> daysToBreakeven(savings, investment) ]])])])])])])])

\* const scenarios = useMemo(() => [...].map((s) => computeScenario(state, s)),
\* [state]): the three results of the inputs of a render.
scenarios(st) == [s \in EfficacyScenario |-> computeScenario(st, s)]

(***************************************************************************)
(* The input store of HomePage: the handlers                               *)
(***************************************************************************)
\* The fields the form passes to handleNumberChange.
NumberFields ==
    { "milkingCows", "replacementCost", "salvageValue", "milkPrice",
      "lbMilkPerLbDM", "dmCost", "deathEvents", "soldEvents" }

\* handleNumberChange that also re-derives fresh/year from a new herd size.
handleNumberChange_rederivesFresh(prev, field, raw) ==
    IF field = "milkingCows"
    THEN [prev EXCEPT !.milkingCows   = InputValue(raw),
                      !.freshOverride = FALSE,
                      !.freshPerYear  = MathRound(Mul(InputValue(raw), Dec(135, 100)))]
    ELSE [prev EXCEPT ![field] = InputValue(raw)]

handleNumberChange(prev, field, raw) ==
    [prev EXCEPT ![field] = InputValue(raw)]

handleFreshChange(prev, raw) ==
    [prev EXCEPT !.freshPerYear = InputValue(raw), !.freshOverride = TRUE]

\* handleHealthChange with the test on the key inverted.
handleHealthChange_invertedMatch(prev, key, raw) ==
    [prev EXCEPT !.healthEvents =
        [i \in 1..Len(prev.healthEvents) |->
            Let([ev \in {prev.healthEvents[i]} |->
                IF ev.key # key THEN [ev EXCEPT !.count = InputValue(raw)] ELSE ev])]]

handleHealthChange(prev, key, raw) ==
    [prev EXCEPT !.healthEvents =
        [i \in 1..Len(prev.healthEvents) |->
            Let([ev \in {prev.healthEvents[i]} |->
                IF ev.key = key THEN [ev EXCEPT !.count = InputValue(raw)] ELSE ev])]]

\* The "Reset to 135% of milking cows" button.
resetFresh(prev) ==
    [prev EXCEPT !.freshOverride = FALSE,
                 !.freshPerYear  = MathRound(Mul(prev.milkingCows, Dec(135, 100)))]

(***************************************************************************)
(* Bounds and inputs                                                       *)
(***************************************************************************)
\* The number of form operations in one run.
MaxEdits == 2

\* Raw strings given to a handler: "", "7", "-3", and "1e3" between a VT
\* (U+000B) and an NBSP (U+00A0).
RawInputs ==
    { <<>>, <<"7">>, <<"-", "3">>,
      <<"", "1", "e", "3", " ">> }

\* The numeric fields edited in the runs.
EditedFields == {"milkingCows", "deathEvents"}

\* Keys passed to handleHealthChange in the runs: one of the catalog and one
\* that is not.
KeyInputs == {"lameness", "nokey"}

NoResults == [s \in {} |-> Null]

\* The fresh/year edit in force: none, or the value typed.
NoFreshEdit == [set |-> FALSE, v |-> Num(0)]

(***************************************************************************)
(* Spec: the form handlers acting on the default state.  results holds the *)
(* scenarios of the current inputs: the render that applies a setState     *)
(* recomputes them (useMemo on [state]), the first render included.        *)
(***************************************************************************)
Init ==
    /\ state = defaultState
    /\ results = scenarios(state)
    /\ lastFreshEdit = NoFreshEdit
    /\ edits = 0

HandleNumberChange ==
    \E field \in EditedFields, raw \in RawInputs :
        /\ edits < MaxEdits
        /\ state' = handleNumberChange(state, field, raw)
        /\ results' = scenarios(state')
        /\ edits' = edits + 1
        /\ UNCHANGED lastFreshEdit

HandleFreshChange ==
    \E raw \in RawInputs :
        /\ edits < MaxEdits
        /\ state' = handleFreshChange(state, raw)
        /\ results' = scenarios(state')
        /\ lastFreshEdit' = [set |-> TRUE, v |-> InputValue(raw)]
        /\ edits' = edits + 1

HandleHealthChange ==
    \E key \in KeyInputs, raw \in RawInputs :
        /\ edits < MaxEdits
        /\ state' = handleHealthChange(state, key, raw)
        /\ results' = scenarios(state')
        /\ edits' = edits + 1
        /\ UNCHANGED lastFreshEdit

ResetFresh ==
    /\ edits < MaxEdits
    /\ state' = resetFresh(state)
    /\ results' = scenarios(state')
    /\ lastFreshEdit' = NoFreshEdit
    /\ edits' = edits + 1

Next == HandleNumberChange \/ HandleFreshChange \/ HandleHealthChange \/ ResetFresh

Spec == Init /\ [][Next]_vars

(***************************************************************************)
(* SpecCalc: computeScenario applied to input snapshots                    *)
(***************************************************************************)
\* The largest herd size among the inputs, in thousands of cows.
MaxThousandCows == 1

\* Herd sizes: 0, whole thousands, and a negative size (nothing rejects one)
\* large enough to make the investment negative.
CowInputs == {Num(1000 * i) : i \in 0..MaxThousandCows} \cup {Num(-4000)}

\* Fresh cows: derived from the herd, or typed in as 0 or 1500.
FreshInputs ==
    { [override |-> FALSE, perYear |-> Num(0)],
      [override |-> TRUE,  perYear |-> Num(0)],
      [override |-> TRUE,  perYear |-> Num(1500)] }

\* Milk price and feed cost: the defaults (the extra milk pays for the extra
\* feed), or milk worth nothing and feed at 1 (it does not).
PriceInputs ==
    { [milkPrice |-> Num(20), dmCost |-> Dec(13, 100)],
      [milkPrice |-> Num(0),  dmCost |-> Num(1)] }

HealthInputs == { <<>>, <<HealthEvent("Metritis", "metritis", 900, 400)>> }

CalcInputs ==
    { [ milkingCows     |-> m,
        freshPerYear    |-> f.perYear,
        freshOverride   |-> f.override,
        replacementCost |-> Num(3500),
        salvageValue    |-> sv,
        milkPrice       |-> pr.milkPrice,
        lbMilkPerLbDM   |-> lb,
        dmCost          |-> pr.dmCost,
        deathEvents     |-> de,
        soldEvents      |-> se,
        healthEvents    |-> he ] :
      m \in CowInputs, f \in FreshInputs, sv \in {Num(0), Num(2000)},
      pr \in PriceInputs, lb \in {Num(0), Dec(18, 10)},
      de \in {Num(0), Num(700)}, se \in {Num(0), Num(3000)}, he \in HealthInputs }

InitCalc ==
    /\ state \in CalcInputs \cup {defaultState}
    /\ results = NoResults
    /\ lastFreshEdit = [set |-> state.freshOverride, v |-> state.freshPerYear]
    /\ edits = 0

\* A call of computeScenario that reverses the healthEvents array in place.
ComputeScenario_reversesEvents ==
    \E scenario \in EfficacyScenario \ DOMAIN results :
        /\ results' = [s \in DOMAIN results \cup {scenario} |->
                          IF s = scenario THEN computeScenario(state, scenario)
                          ELSE results[s]]
        /\ state' = [state EXCEPT !.healthEvents =
                        [i \in 1..Len(state.healthEvents) |->
                            state.healthEvents[Len(state.healthEvents) + 1 - i]]]
        /\ UNCHANGED <<lastFreshEdit, edits>>

\* One call computeScenario(state, scenario); the calls for the three
\* scenarios come in any order.
ComputeScenario ==
    \E scenario \in EfficacyScenario \ DOMAIN results :
        /\ results' = [s \in DOMAIN results \cup {scenario} |->
                          IF s = scenario THEN computeScenario(state, scenario)
                          ELSE results[s]]
        /\ UNCHANGED <<state, lastFreshEdit, edits>>

NextCalc == ComputeScenario

SpecCalc == InitCalc /\ [][NextCalc]_vars

(***************************************************************************)
(* SpecStore: the form handlers acting on the default state, with raw      *)
(* strings up to the largest magnitudes                                    *)
(***************************************************************************)
\* The number of form operations in one run.
MaxStoreEdits == 2

\* "14" followed by 307 zeros: 1.4e308, a finite double.
HugeRaw == <<"1", "4">> \o [i \in 1..307 |-> "0"]

\* "1" followed by 309 zeros: beyond the largest double, so Infinity.
OverflowRaw == <<"1">> \o [i \in 1..309 |-> "0"]

\* Raw strings given to a handler: "", "-3", "1.5", "abc", "Infinity", "1e3",
\* "1e400", "0x10", "7" after a ZWNBSP (U+FEFF), a lone U+2028 and the two
\* long digit strings.
StoreRawInputs ==
    { <<>>, <<"-", "3">>, <<"1", ".", "5">>, <<"a", "b", "c">>, InfinityChars,
      <<"1", "e", "3">>, <<"1", "e", "4", "0", "0">>, <<"0", "x", "1", "0">>,
      <<"﻿", "7">>, <<"U+2028">>, HugeRaw, OverflowRaw }

StoreFields == {"milkingCows", "soldEvents"}

StoreKeys == {"metritis", "nokey"}

InitStore ==
    /\ state = defaultState
    /\ results = scenarios(state)
    /\ lastFreshEdit = [set |-> FALSE, v |-> Num(0)]
    /\ edits = 0

StoreNumberChange ==
    \E field \in StoreFields, raw \in StoreRawInputs :
        /\ edits < MaxStoreEdits
        /\ state' = handleNumberChange(state, field, raw)
        /\ results' = scenarios(state')
        /\ edits' = edits + 1
        /\ UNCHANGED lastFreshEdit

StoreFreshChange ==
    \E raw \in StoreRawInputs :
        /\ edits < MaxStoreEdits
        /\ state' = handleFreshChange(state, raw)
        /\ results' = scenarios(state')
        /\ lastFreshEdit' = [set |-> TRUE, v |-> InputValue(raw)]
        /\ edits' = edits + 1

StoreHealthChange ==
    \E key \in StoreKeys, raw \in StoreRawInputs :
        /\ edits < MaxStoreEdits
        /\ state' = handleHealthChange(state, key, raw)
        /\ results' = scenarios(state')
        /\ edits' = edits + 1
        /\ UNCHANGED lastFreshEdit

StoreReset ==
    /\ edits < MaxStoreEdits
    /\ state' = resetFresh(state)
    /\ results' = scenarios(state')
    /\ lastFreshEdit' = [set |-> FALSE, v |-> Num(0)]
    /\ edits' = edits + 1

NextStore == StoreNumberChange \/ StoreFreshChange \/ StoreHealthChange \/ StoreReset

SpecStore == InitStore /\ [][NextStore]_vars

(***************************************************************************)
(* SpecHealth: computeScenario applied to inputs with a health catalog of  *)
(* up to MaxEvents entries in every order                                  *)
(***************************************************************************)
\* The largest number of health events in an input.
MaxEvents == 3

\* Catalog entries with edited counts (1, 7, 3 and -3).
EventPool ==
    { HealthEvent("Metritis", "metritis", 1, 400),
      HealthEvent("Mastitis", "mastitis", 7, 400),
      HealthEvent("Clinical Hypocalcemia / Milk Fever", "milkFever", 3, 275),
      HealthEvent("Lameness", "lameness", -3, 225) }

\* The sequences of distinct entries, in every order.
HealthSeqs ==
    UNION { { q \in [1..n -> EventPool] :
                \A i, j \in 1..n : i # j => q[i] # q[j] } : n \in 0..MaxEvents }

InitHealth ==
    /\ \E he \in HealthSeqs : state = [defaultState EXCEPT !.healthEvents = he]
    /\ results = NoResults
    /\ lastFreshEdit = NoFreshEdit
    /\ edits = 0

SpecHealth == InitHealth /\ [][NextCalc]_vars

(***************************************************************************)
(* Claims                                                                  *)
(***************************************************************************)
Zero == Num(0)

\* The magnitude of x.
Abs(x) == IF x.k = "nan" THEN x ELSE [x EXCEPT !.s = 1]

\* a >= b (false when either is NaN)
Ge(a, b) == a.k # "nan" /\ b.k # "nan" /\ ~Gt(b, a)

\* a <= b (false when either is NaN)
Le(a, b) == Ge(b, a)

\* Every numeric field of the inputs is >= 0.
NonNegativeInputs(st) ==
    /\ \A f \in NumberFields \cup {"freshPerYear"} : Ge(st[f], Zero)
    /\ \A i \in 1..Len(st.healthEvents) :
          Ge(st.healthEvents[i].count, Zero) /\ Ge(st.healthEvents[i].costPerEvent, Zero)

AllComputed == DOMAIN results = EfficacyScenario

\* 2^-44: the relative rounding error allowed to a computed quantity, far
\* above what the few dozen operations of computeScenario accumulate.
RoundingSlack == RoundDouble(1, <<1>>, -44, FALSE)

\* x and y differ by at most 2^-44 * scale.
Within(x, y, scale) == Le(Abs(Sub(x, y)), Mul(RoundingSlack, scale))

\* The sum over the events of |count * (0.549 * mult) * costPerEvent|.
RECURSIVE HealthMagnitude(_, _)
HealthMagnitude(evs, mult) ==
    IF evs = <<>> THEN Zero
    ELSE Add(Abs(healthReduce(<<Head(evs)>>, 1, mult)), HealthMagnitude(Tail(evs), mult))

\* (|extraRevenuePerCowDay| + |extraDMCostPerCowDay|) * |milkingCows| * 210:
\* the magnitudes of the two quantities whose difference is the production
\* saving.
ProductionMagnitude(st, mult) ==
    LET gainPercent           == Mul(PRODUCTION_GAIN_PERCENT_BASE, mult)
        extraRevenuePerCowDay == Div(Mul(gainPercent, st.milkPrice), Num(100))
        extraDMCostPerCowDay  == Mul(Div(gainPercent, st.lbMilkPerLbDM), st.dmCost)
    IN  Mul(Mul(Add(Abs(extraRevenuePerCowDay), Abs(extraDMCostPerCowDay)),
                Abs(st.milkingCows)),
            Num(210))

\* The sum of the magnitudes of the quantities added or subtracted to get
\* savingsAnnual.
SavingsMagnitude(st, mult) ==
    Add(Add(Add(Abs(deathSavings(st, mult)), Abs(cullingSavings(st, mult))),
            HealthMagnitude(st.healthEvents, mult)),
        ProductionMagnitude(st, mult))

\* C1: with milkingCows = 0 and the other inputs finite and non-negative, no
\* field of a returned ScenarioResult is NaN or +/-Infinity: the seven numeric
\* fields are finite and the two breakeven fields are finite or null.
C1_ZeroHerdAllFinite ==
    \A s \in DOMAIN results :
        (IsZero(state.milkingCows) /\ NonNegativeInputs(state)) =>
            /\ isFinite(results[s].savingsAnnual)
            /\ isFinite(results[s].investmentAnnual)
            /\ isFinite(results[s].netProfitAnnual)
            /\ isFinite(results[s].roiRatio)
            /\ isFinite(results[s].returnPerCowYear)
            /\ isFinite(results[s].returnPerCowMonth)
            /\ isFinite(results[s].returnPerCowDay)
            /\ results[s].monthsToBreakeven = Null \/ isFinite(results[s].monthsToBreakeven)
            /\ results[s].daysToBreakeven = Null \/ isFinite(results[s].daysToBreakeven)

\* C2: with freshOverride = true, freshPerYear = 0 and soldEvents > 0, the
\* cullingSavings term is exactly 0, so that the returned savingsAnnual is
\* deathSavings + healthSavings + productionSavingsAnnual.
C2_ZeroFreshCullingZero ==
    \A s \in DOMAIN results :
        (state.freshOverride /\ IsZero(state.freshPerYear) /\ Gt(state.soldEvents, Zero)) =>
            LET mult == SCENARIO_MULTIPLIERS(s)
            IN  /\ StrictEq(cullingSavings(state, mult), Zero)
                /\ results[s].savingsAnnual =
                       Add(Add(deathSavings(state, mult), healthSavings(state, mult)),
                           productionSavingsAnnual(state, mult))

\* C3: with deathEvents = 0 the deathSavings term of a computed scenario is
\* exactly 0, whatever milkingCows (0 included) and salvageValue are.
C3_NoDeathsNoDeathSavings ==
    \A s \in DOMAIN results :
        IsZero(state.deathEvents) =>
            StrictEq(deathSavings(state, SCENARIO_MULTIPLIERS(s)), Zero)

\* No division of computeScenario has a zero denominator.
NoZeroDenominator(st) ==
    ~IsZero(st.milkingCows) /\ ~IsZero(fresh(st)) /\ ~IsZero(st.lbMilkPerLbDM)

\* C4 as stated: for inputs with finite non-negative fields, savingsAnnual under
\* optimistic >= under base >= under conservative.  It is stated here for the
\* inputs that divide by no zero, where every result is a finite number.
C4_SavingsMonotoneAsStated ==
    (AllComputed /\ NonNegativeInputs(state) /\ NoZeroDenominator(state)) =>
        /\ Ge(results["optimistic"].savingsAnnual, results["base"].savingsAnnual)
        /\ Ge(results["base"].savingsAnnual, results["conservative"].savingsAnnual)

\* C4 as amended: for inputs with finite non-negative fields and finite
\* savings, when savingsAnnual under base is >= 0 then optimistic >= base >=
\* conservative, and when it is <= 0 then optimistic <= base <= conservative,
\* each up to a rounding error of at most 2^-44 times the sum of the
\* magnitudes of the quantities added or subtracted to get savingsAnnual.
C4_SavingsMonotoneBySign ==
    (AllComputed /\ NonNegativeInputs(state)
        /\ \A s \in EfficacyScenario : isFinite(results[s].savingsAnnual)) =>
        LET c   == results["conservative"].savingsAnnual
            b   == results["base"].savingsAnnual
            o   == results["optimistic"].savingsAnnual
            tol == Mul(RoundingSlack,
                       SavingsMagnitude(state, SCENARIO_MULTIPLIERS("optimistic")))
        IN  /\ Ge(b, Zero) => (Ge(Add(o, tol), b) /\ Ge(Add(b, tol), c))
            /\ Le(b, Zero) => (Le(o, Add(b, tol)) /\ Le(b, Add(c, tol)))

\* The three scenarios computed on non-negative inputs with strictly growing,
\* positive savings.
C4_Witness ==
    /\ AllComputed
    /\ NonNegativeInputs(state)
    /\ Gt(results["conservative"].savingsAnnual, Zero)
    /\ Gt(results["base"].savingsAnnual, results["conservative"].savingsAnnual)
    /\ Gt(results["optimistic"].savingsAnnual, results["base"].savingsAnnual)

\* C5: the fresh count computeScenario uses is the value of the latest
\* fresh/year edit made since the last reset (whatever milkingCows edits
\* followed it), and otherwise round(milkingCows * 1.35); freshOverride is true
\* exactly when such an edit is in force.
C5_EffectiveFresh ==
    /\ state.freshOverride = lastFreshEdit.set
    /\ fresh(state) =
          IF lastFreshEdit.set THEN lastFreshEdit.v
          ELSE MathRound(Mul(state.milkingCows, Dec(135, 100)))

\* A fresh/year edit is in force, milkingCows was edited, and the derived
\* count differs from the one typed.
C5_Witness ==
    /\ lastFreshEdit.set
    /\ state.milkingCows # defaultState.milkingCows
    /\ fresh(state) # MathRound(Mul(state.milkingCows, Dec(135, 100)))

\* The investment of the default inputs with this herd size.
InvestmentOfHerd(m) == investmentAnnual([defaultState EXCEPT !.milkingCows = m])

\* C6: investmentAnnual is the same in the results of all scenarios and
\* depends on no input field other than milkingCows.
C6_InvestmentOnlyHerd ==
    \A s \in DOMAIN results :
        results[s].investmentAnnual = InvestmentOfHerd(state.milkingCows)

\* All three scenarios computed on inputs that differ from the defaults in
\* fields other than milkingCows.
C6_Witness ==
    /\ AllComputed
    /\ state.freshOverride
    /\ state.soldEvents # defaultState.soldEvents
    /\ state.healthEvents # defaultState.healthEvents
    /\ state.milkingCows = Num(1000)

\* 4.5 * m + 120 + 15840, evaluated from left to right.
InvestmentClosedForm(m) == Add(Add(Mul(Dec(45, 10), m), Num(120)), Num(15840))

\* Herd sizes that are not whole numbers.
FractionalHerds == {Dec(88357, 100), Dec(88368, 100), Dec(1, 10)}

\* C7: investmentAnnual = milkingCows * 4.5 * 1 + 40 * 3 + (22*30 * 0.10 * 20
\* * 12) = 4.5 * milkingCows + 120 + 15840 for every input and scenario (each
\* side evaluated as written, herd sizes that are not whole numbers
\* included), which is 60960 for the default state.
C7_InvestmentValue ==
    /\ \A s \in DOMAIN results :
          /\ results[s].investmentAnnual = InvestmentClosedForm(state.milkingCows)
          /\ state = defaultState => results[s].investmentAnnual = Num(60960)
    /\ \A m \in FractionalHerds :
          investmentAnnual([state EXCEPT !.milkingCows = m]) = InvestmentClosedForm(m)
    /\ laborCostAnnual = Num(15840)

\* The base scenario computed on the default state.
C7_Witness ==
    /\ state = defaultState
    /\ "base" \in DOMAIN results
    /\ fresh(state) = Num(13500)

\* C8: roiRatio is savingsAnnual / investmentAnnual when investmentAnnual > 0
\* and 0 when investmentAnnual <= 0.
C8_RoiRatio ==
    \A s \in DOMAIN results :
        LET r == results[s]
        IN  /\ Gt(r.investmentAnnual, Zero) =>
                  r.roiRatio = Div(r.savingsAnnual, r.investmentAnnual)
            /\ Le(r.investmentAnnual, Zero) => r.roiRatio = Zero

\* A result with a negative investment (a herd of -4000) and positive savings.
C8_Witness ==
    /\ \E s \in DOMAIN results :
          /\ Gt(Zero, results[s].investmentAnnual)
          /\ Gt(results[s].savingsAnnual, Zero)
    /\ state.milkingCows = Num(-4000)

\* C9: the returned netProfitAnnual is the returned savingsAnnual minus the
\* returned investmentAnnual, for all inputs (the same value, NaN included).
C9_NetProfit ==
    \A s \in DOMAIN results :
        results[s].netProfitAnnual =
            Sub(results[s].savingsAnnual, results[s].investmentAnnual)

\* A result with positive savings and a positive investment that differ, so
\* with a finite non-zero net profit.
C9_Witness ==
    \E s \in DOMAIN results :
        /\ Gt(results[s].savingsAnnual, Zero)
        /\ Gt(results[s].investmentAnnual, Zero)
        /\ isFinite(results[s].netProfitAnnual)
        /\ ~IsZero(results[s].netProfitAnnual)

\* C10 as stated: both breakeven fields are null iff savingsAnnual <= 0 or
\* investmentAnnual <= 0, and otherwise they are investment / savings * 12
\* and * 365, so that days * 12 = months * 365.
C10_BreakevenAsStated ==
    \A s \in DOMAIN results :
        LET r == results[s]
            nonPositive == Le(r.savingsAnnual, Zero) \/ Le(r.investmentAnnual, Zero)
        IN  /\ (r.monthsToBreakeven = Null /\ r.daysToBreakeven = Null) <=> nonPositive
            /\ ~nonPositive =>
                  /\ r.monthsToBreakeven =
                        Mul(Div(r.investmentAnnual, r.savingsAnnual), Num(12))
                  /\ r.daysToBreakeven =
                        Mul(Div(r.investmentAnnual, r.savingsAnnual), Num(365))
                  /\ StrictEq(Mul(r.daysToBreakeven, Num(12)),
                              Mul(r.monthsToBreakeven, Num(365)))

\* C10 as amended: both breakeven fields are null iff it is not the case that
\* savingsAnnual > 0 and investmentAnnual > 0 (so also when savingsAnnual is
\* NaN); otherwise they are investment / savings * 12 and * 365, neither is
\* null, and when both are finite days / 365 and months / 12 differ by at
\* most 2^-50 times months / 12.
C10_BreakevenGuard ==
    \A s \in DOMAIN results :
        LET r == results[s]
            positive == Gt(r.savingsAnnual, Zero) /\ Gt(r.investmentAnnual, Zero)
        IN  /\ ~positive => (r.monthsToBreakeven = Null /\ r.daysToBreakeven = Null)
            /\ positive =>
                  /\ r.monthsToBreakeven =
                        Mul(Div(r.investmentAnnual, r.savingsAnnual), Num(12))
                  /\ r.daysToBreakeven =
                        Mul(Div(r.investmentAnnual, r.savingsAnnual), Num(365))
                  /\ r.monthsToBreakeven # Null /\ r.daysToBreakeven # Null
                  /\ (isFinite(r.monthsToBreakeven) /\ isFinite(r.daysToBreakeven)) =>
                        Le(Abs(Sub(Div(r.daysToBreakeven, Num(365)),
                                   Div(r.monthsToBreakeven, Num(12)))),
                           Mul(RoundDouble(1, <<1>>, -50, FALSE),
                               Div(r.monthsToBreakeven, Num(12))))

\* A result with both breakeven fields set to non-zero numbers.
C10_Witness ==
    \E s \in DOMAIN results :
        /\ isFinite(results[s].monthsToBreakeven)
        /\ ~IsZero(results[s].monthsToBreakeven)
        /\ isFinite(results[s].daysToBreakeven)

\* The inputs st with the health events in every order.
PermutedInputs(st) ==
    { [st EXCEPT !.healthEvents = [i \in 1..Len(st.healthEvents) |-> st.healthEvents[p[i]]]] :
          p \in Permutations(1..Len(st.healthEvents)) }

\* n * 2^-52 times the sum of the terms' magnitudes.
RoundingBound(evs, mult) ==
    Mul(RoundDouble(1, BFromInt(Len(evs)), -52, FALSE), HealthMagnitude(evs, mult))

\* C11 as stated: for every scenario and healthEvents sequence, every
\* permutation of the sequence yields the same healthSavings and the same
\* ScenarioResult, and an empty sequence yields 0.
C11_HealthOrderAsStated ==
    \A s \in DOMAIN results :
        LET mult == SCENARIO_MULTIPLIERS(s)
        IN  /\ \A st \in PermutedInputs(state) :
                  /\ healthSavings(st, mult) = healthSavings(state, mult)
                  /\ computeScenario(st, s) = results[s]
            /\ state.healthEvents = <<>> => IsZero(healthSavings(state, mult))

\* C11 as amended: for every scenario and healthEvents sequence, the
\* healthSavings computed for two permutations of the sequence differ by at
\* most n * 2^-52 times the sum of the terms' magnitudes (n events), and not
\* at all for a sequence of fewer than two events; the investment does not
\* depend on the order; an empty sequence yields 0.
C11_HealthOrderUpToRounding ==
    \A s \in DOMAIN results :
        LET mult == SCENARIO_MULTIPLIERS(s)
            evs  == state.healthEvents
        IN  /\ \A st \in PermutedInputs(state) :
                  /\ Le(Abs(Sub(healthSavings(st, mult), healthSavings(state, mult))),
                        RoundingBound(evs, mult))
                  /\ Len(evs) < 2 => healthSavings(st, mult) = healthSavings(state, mult)
                  /\ investmentAnnual(st) = results[s].investmentAnnual
            /\ evs = <<>> => healthSavings(state, mult) = Zero

\* The three scenarios computed on three health events, one of them with a
\* negative count, whose computed sum differs between two orders.
C11_Witness ==
    /\ AllComputed
    /\ Len(state.healthEvents) = 3
    /\ \E i \in 1..3 : Gt(Zero, state.healthEvents[i].count)
    /\ \E st \in PermutedInputs(state) :
          healthSavings(st, Dec(75, 100)) # healthSavings(state, Dec(75, 100))

\* C12: with the default state, each of healthSavings, deathSavings,
\* cullingSavings and productionSavingsAnnual under conservative is strictly
\* smaller than the same term under base, and investmentAnnual is 60960 under
\* both.
C12_DefaultConservativeBelowBase ==
    (state = defaultState /\ {"conservative", "base"} \subseteq DOMAIN results) =>
        LET c == SCENARIO_MULTIPLIERS("conservative")
            b == SCENARIO_MULTIPLIERS("base")
        IN  /\ Gt(healthSavings(state, b), healthSavings(state, c))
            /\ Gt(deathSavings(state, b), deathSavings(state, c))
            /\ Gt(cullingSavings(state, b), cullingSavings(state, c))
            /\ Gt(productionSavingsAnnual(state, b), productionSavingsAnnual(state, c))
            /\ results["conservative"].investmentAnnual = Num(60960)
            /\ results["base"].investmentAnnual = Num(60960)

\* Conservative and base computed on the default state, with positive savings
\* that differ.
C12_Witness ==
    /\ state = defaultState
    /\ {"conservative", "base"} \subseteq DOMAIN results
    /\ Gt(results["conservative"].savingsAnnual, Zero)
    /\ Gt(results["base"].savingsAnnual, results["conservative"].savingsAnnual)

\* The numeric fields of the stored inputs: the scalar fields and every
\* health event's count.
StoredNumbers(st) ==
    {st[f] : f \in NumberFields \cup {"freshPerYear"}}
        \cup {st.healthEvents[i].count : i \in 1..Len(st.healthEvents)}

\* C13: in every state reachable from the default state by form edits with
\* arbitrary raw strings, every numeric field of the stored inputs is a finite
\* number; an empty raw string and a raw string that does not parse to a
\* finite number are stored as 0, and a raw string that parses to a finite
\* number (negative values included) is stored as that number.
C13_StoredInputsFinite ==
    /\ \A x \in StoredNumbers(state) : isFinite(x)
    /\ \A raw \in StoreRawInputs :
          LET stored == handleNumberChange(state, "milkingCows", raw).milkingCows
          IN  /\ stored = handleFreshChange(state, raw).freshPerYear
              /\ stored = handleHealthChange(state, "metritis", raw).healthEvents[1].count
              /\ IF raw # <<>> /\ isFinite(ToNumber(raw))
                 THEN stored = ToNumber(raw)
                 ELSE stored = Zero

\* C14: an invocation of computeScenario leaves the inputs (the healthEvents
\* sequence included) and the results of earlier invocations unchanged, and
\* the result for a scenario is the same function of the inputs and the
\* scenario whichever scenarios were computed before it, so that the three
\* results over one input snapshot do not depend on the order of computation.
C14_PureOrderIndependent ==
    [][ /\ state' = state
        /\ \A s \in DOMAIN results : s \in DOMAIN results' /\ results'[s] = results[s]
        /\ \A s \in DOMAIN results' : results'[s] = computeScenario(state, s) ]_vars

\* The three scenarios computed on the default state with its nine health
\* events, with three different results.
C14_Witness ==
    /\ AllComputed
    /\ Len(state.healthEvents) = 9
    /\ results["conservative"].savingsAnnual # results["base"].savingsAnnual
    /\ results["optimistic"].netProfitAnnual # results["base"].netProfitAnnual

\* The keys of the default catalog.
CatalogKeys == {defaultHealthEvents[i].key : i \in 1..Len(defaultHealthEvents)}

\* The raw strings of the runs, and "abc", "1.5" and "Infinity".
FrameRaws == RawInputs \cup {<<"a", "b", "c">>, <<"1", ".", "5">>, InfinityChars}

\* C15: handleHealthChange(key, raw) changes only the count of the health
\* events whose key equals key: the length and order of healthEvents, every
\* event's name, key and costPerEvent, the counts of the other events and all
\* scalar input fields (freshOverride and freshPerYear included) are
\* unchanged; when no event has that key the inputs are unchanged.
C15_HealthChangeFrame ==
    \A key \in CatalogKeys \cup KeyInputs, raw \in FrameRaws :
        LET next == handleHealthChange(state, key, raw)
            evs  == state.healthEvents
            evs2 == next.healthEvents
        IN  /\ Len(evs2) = Len(evs)
            /\ \A i \in 1..Len(evs) :
                  /\ evs2[i].name = evs[i].name
                  /\ evs2[i].key = evs[i].key
                  /\ evs2[i].costPerEvent = evs[i].costPerEvent
                  /\ evs[i].key # key => evs2[i].count = evs[i].count
                  /\ evs[i].key = key => evs2[i].count = InputValue(raw)
            /\ \A f \in DOMAIN state \ {"healthEvents"} : next[f] = state[f]
            /\ (\A i \in 1..Len(evs) : evs[i].key # key) => next = state

\* The lameness count edited to -3 after a fresh/year edit to 7, every other
\* count as in the default catalog and the scenarios recomputed.
C15_Witness ==
    /\ state.healthEvents[9].count = Num(-3)
    /\ \A i \in 1..8 : state.healthEvents[i] = defaultHealthEvents[i]
    /\ state.freshOverride
    /\ state.freshPerYear = Num(7)
    /\ results = scenarios(state)
    /\ edits = 2

\* The inputs the linearity of the savings is stated for: milkingCows > 0,
\* effective fresh > 0 and lbMilkPerLbDM > 0.
LinearInputs(st) ==
    /\ Gt(st.milkingCows, Zero)
    /\ Gt(fresh(st), Zero)
    /\ Gt(st.lbMilkPerLbDM, Zero)

\* deathEvents * 0.113 * mult * salvageValue, evaluated from left to right.
DeathClosedForm(st, mult) ==
    Mul(Mul(Mul(st.deathEvents, DEATH_REDUCTION_BASE), mult), st.salvageValue)

\* (soldEvents / fresh) * 0.113 * mult * soldEvents * (replacementCost -
\* salvageValue), evaluated from left to right.
CullingClosedForm(st, mult) ==
    Mul(Mul(Mul(Mul(Div(st.soldEvents, fresh(st)), CULLING_SOLD_REDUCTION_BASE), mult),
            st.soldEvents),
        Sub(st.replacementCost, st.salvageValue))

\* C16 as stated: for inputs with milkingCows > 0, effective fresh > 0 and
\* lbMilkPerLbDM > 0, each of deathSavings, cullingSavings, healthSavings,
\* productionSavingsAnnual and savingsAnnual under scenario s equals mult(s)
\* times the same quantity under base, deathSavings = deathEvents * 0.113 *
\* mult * salvageValue and cullingSavings = (soldEvents / fresh) * 0.113 *
\* mult * soldEvents * (replacementCost - salvageValue).
C16_LinearAsStated ==
    LinearInputs(state) =>
        \A s \in DOMAIN results :
            LET mult == SCENARIO_MULTIPLIERS(s)
                one  == SCENARIO_MULTIPLIERS("base")
            IN  /\ StrictEq(deathSavings(state, mult), Mul(mult, deathSavings(state, one)))
                /\ StrictEq(cullingSavings(state, mult), Mul(mult, cullingSavings(state, one)))
                /\ StrictEq(healthSavings(state, mult), Mul(mult, healthSavings(state, one)))
                /\ StrictEq(productionSavingsAnnual(state, mult),
                            Mul(mult, productionSavingsAnnual(state, one)))
                /\ StrictEq(results[s].savingsAnnual,
                            Mul(mult, totalSavingsAnnual(state, one)))
                /\ StrictEq(deathSavings(state, mult), DeathClosedForm(state, mult))
                /\ StrictEq(cullingSavings(state, mult), CullingClosedForm(state, mult))

\* C16 as amended: for inputs with milkingCows > 0, effective fresh > 0 and
\* lbMilkPerLbDM > 0, each of deathSavings, cullingSavings, healthSavings,
\* productionSavingsAnnual and savingsAnnual under scenario s is mult(s) times
\* the same quantity under base up to rounding: the two differ by at most
\* 2^-44 times the magnitude of the quantity (for healthSavings,
\* productionSavingsAnnual and savingsAnnual: the sum of the magnitudes of the
\* quantities added or subtracted to get it).  In the same sense deathSavings
\* is deathEvents * 0.113 * mult * salvageValue and cullingSavings is
\* (soldEvents / fresh) * 0.113 * mult * soldEvents * (replacementCost -
\* salvageValue), and cullingSavings does not depend on deathEvents at all.
C16_LinearInMultiplier ==
    LinearInputs(state) =>
        \A s \in DOMAIN results :
            LET mult == SCENARIO_MULTIPLIERS(s)
                one  == SCENARIO_MULTIPLIERS("base")
                d    == deathSavings(state, mult)
                c    == cullingSavings(state, mult)
            IN  /\ Within(d, Mul(mult, deathSavings(state, one)), Abs(d))
                /\ Within(c, Mul(mult, cullingSavings(state, one)), Abs(c))
                /\ Within(healthSavings(state, mult), Mul(mult, healthSavings(state, one)),
                          HealthMagnitude(state.healthEvents, mult))
                /\ Within(productionSavingsAnnual(state, mult),
                          Mul(mult, productionSavingsAnnual(state, one)),
                          ProductionMagnitude(state, mult))
                /\ Within(results[s].savingsAnnual, Mul(mult, totalSavingsAnnual(state, one)),
                          SavingsMagnitude(state, mult))
                /\ Within(d, DeathClosedForm(state, mult), Abs(d))
                /\ Within(c, CullingClosedForm(state, mult), Abs(c))
                /\ \A de \in {Num(0), Num(7)} :
                       cullingSavings([state EXCEPT !.deathEvents = de], mult) = c

\* The three scenarios computed on inputs with a positive herd, positive
\* fresh cows and a positive feed efficiency, with deaths, sales and health
\* events, where the four savings terms are not zero and the computed
\* deathSavings under conservative is not 0.75 times the one under base.
C16_Witness ==
    /\ AllComputed
    /\ LinearInputs(state)
    /\ Gt(deathSavings(state, Num(1)), Zero)
    /\ Gt(cullingSavings(state, Num(1)), Zero)
    /\ Gt(healthSavings(state, Num(1)), Zero)
    /\ ~IsZero(productionSavingsAnnual(state, Num(1)))
    /\ ~StrictEq(deathSavings(state, Dec(75, 100)),
                 Mul(Dec(75, 100), deathSavings(state, Num(1))))

====
